---- MODULE Spec2Model ----
(***************************************************************************)
(* A model of dvr_system.py: the Flask request handlers (run by a threaded *)
(* server, so several are in flight at once), the recording tasks that     *)
(* start_recording launches, the battery sampler thread, and the storage   *)
(* queries.  Every handler is split at its accesses to the module globals  *)
(* (recording, recording_filename, video_writer, camera, current_voltage,  *)
(* current_current, current_power): the interpreter may switch threads     *)
(* between any two of them.                                                *)
(*                                                                         *)
(* Units: time in ticks (TicksPerSec per second) counted from              *)
(* 2026-01-01 00:00:00 local time; voltage in mV, current in mA, power in  *)
(* uW; storage figures in hundredths of a GiB / of a percent.              *)
(***************************************************************************)
EXTENDS Integers, Sequences, FiniteSets, TLC

\* ------------------------------------------------------------------ bounds
\* Request-handling threads of the threaded server.
NumThreads == 2
\* Recording sessions started in one run.
MaxSessions == 2
\* Resolution of the model's clock.
TicksPerSec == 1
\* The wall clock when the process starts: 23:59:58 on day 0.
StartTime == 86398 * TicksPerSec
\* Seconds the request-handling specification lets pass.
WebHorizon == 1
\* Seconds the sampler specification lets pass.
MonHorizon == 3
\* Resolution of a file's modification time, in steps per second.
MtimeTicksPerSec == 2
\* Directory entries in the storage root.
MaxFiles == 2

Threads == 1..NumThreads
Sessions == 1..MaxSessions

\* Python's None: where a string may stand, where a file name or a path may
\* stand, and where an object may stand.
None == "None"
NoName == << >>
NoObject == 0

VARIABLES
    now,                 \* the wall clock, in ticks
    recording,           \* global recording (line 70)
    recording_filename,  \* global recording_filename (line 72)
    video_writer,        \* global video_writer (line 71): None or the id of a writer
    camera,              \* global camera (line 68): None or the id of a CameraStream
    camOpens,            \* CameraStream objects constructed so far
    current_voltage, current_current, current_power,   \* lines 73-75
    system_start_time,   \* line 76
    fsStat,              \* what os.statvfs(SSD_MOUNT_PATH) answers at the moment
    INA219_AVAILABLE,    \* lines 19-25
    pc, req, loc, resp,  \* per request thread: position, request, locals, last response
    task,                \* per session: the record_video thread
    writer,              \* per session: the cv2.VideoWriter that thread constructed
    nSessions,           \* sessions started so far; the latest one last set the flag
    spc, wake,           \* the sampler thread: position, end of its current sleep
    stopped,             \* history: sessions an accepted stop has ended
    overlap,             \* history: did another start/stop handler run during this one
    lastAccepted,        \* history: the last accepted record command
    sampleChanged,       \* history: has the current sample changed the published reading
    dirList              \* os.listdir(SSD_MOUNT_PATH) with each file's size and mtime

webvars == <<recording, recording_filename, video_writer, camera, camOpens,
             pc, req, loc, resp, task, writer, nSessions,
             stopped, overlap, lastAccepted>>
monvars == <<current_voltage, current_current, current_power, spc, wake, sampleChanged>>
envvars == <<system_start_time, fsStat, INA219_AVAILABLE, dirList>>
vars == <<now, webvars, monvars, envvars>>

\* ---------------------------------------------------------- configuration
SSD_MOUNT_PATH == "/mnt/ssd/recordings"
CAMERA_INDEX == 0

\* werkzeug's generate_password_hash / check_password_hash: a one-way digest
\* of the password, compared by recomputation.
generate_password_hash(password) == <<"pbkdf2", password>>
check_password_hash(pwhash, password) == pwhash = generate_password_hash(password)

users == [u \in {"admin", "viewer"} |->
            IF u = "admin" THEN generate_password_hash("raspberry")
                           ELSE generate_password_hash("viewer123")]

\* ---------------------------------------------------------- authentication
\* The check that looks the user up and never compares the password.
verify_password_anyhash(username, password) ==
    IF username \in DOMAIN users THEN username ELSE None

verify_password(username, password) ==
    IF username \in DOMAIN users /\ check_password_hash(users[username], password)
    THEN username ELSE None

auth_error == [code |-> 401, error |-> "Authentication required",
               message |-> "Please provide valid credentials"]

\* ------------------------------------------------------------- arithmetic
\* Python's round(): n/d to the nearest integer, ties to even (n >= 0, d > 0).
RoundDiv(n, d) ==
    LET q == n \div d
        r == n % d
    IN  IF 2 * r < d THEN q
        ELSE IF 2 * r > d THEN q + 1
        ELSE IF q % 2 = 0 THEN q ELSE q + 1

\* ------------------------------------------------------------- timestamps
DigitChars == <<"0", "1", "2", "3", "4", "5", "6", "7", "8", "9">>
TwoDigits(n) == <<DigitChars[((n \div 10) % 10) + 1], DigitChars[(n % 10) + 1]>>

\* datetime.now(): the wall clock as (day of January 2026, hour, minute, second).
DatetimeNow(t) ==
    LET s == t \div TicksPerSec
    IN  [day |-> 1 + s \div 86400, hour |-> (s \div 3600) % 24,
         minute |-> (s \div 60) % 60, second |-> s % 60]

\* strftime("%Y%m%d_%H%M%S"), as a sequence of characters.
StrftimeCompact(d) ==
    <<"2", "0", "2", "6", "0", "1">> \o TwoDigits(d.day) \o <<"_">>
        \o TwoDigits(d.hour) \o TwoDigits(d.minute) \o TwoDigits(d.second)

VideoExt == <<".", "a", "v", "i">>

\* The name without its extension.
RecordingNameNoExt(t) == StrftimeCompact(DatetimeNow(t))

\* line 748: datetime.now().strftime("%Y%m%d_%H%M%S") + ".avi"
RecordingName(t) == StrftimeCompact(DatetimeNow(t)) \o VideoExt

\* os.path.join(SSD_MOUNT_PATH, name)
PathJoin(dir, name) == <<dir, name>>
\* ------------------------------------------------------------------ storage
GiB == 1073741824
MiB == 1048576

\* What os.statvfs can answer: an error, or (f_blocks, f_frsize, f_bavail).
StatFail == [ok |-> FALSE]
StatResults ==
    {StatFail,
     [ok |-> TRUE, f_blocks |-> 0, f_frsize |-> 4096, f_bavail |-> 0],
     [ok |-> TRUE, f_blocks |-> 1024, f_frsize |-> 1048576, f_bavail |-> 0],
     [ok |-> TRUE, f_blocks |-> 30000, f_frsize |-> 1048576, f_bavail |-> 512]}

\* bytes / 1024**3 rounded to 2 decimals, in hundredths of a GiB.  The quotient
\* blocks * frsize * 100 / GiB is computed as blocks * 100 / (GiB / frsize),
\* which is the same number for a block size dividing GiB.
GBx100(blocks, frsize) == RoundDiv(blocks * 100, GiB \div frsize)

\* Lines 116-129, the body of the try: a raised exception or the dictionary.
\* (used / total) * 100 is evaluated only when total > 0.
SsdInfoTryUnguarded(stat) ==
    IF ~stat.ok \/ stat.f_blocks = 0 THEN [raised |-> TRUE]
    ELSE [raised |-> FALSE,
          value |-> [total |-> GBx100(stat.f_blocks, stat.f_frsize),
                     used |-> GBx100(stat.f_blocks - stat.f_bavail, stat.f_frsize),
                     free |-> GBx100(stat.f_bavail, stat.f_frsize),
                     percent |-> RoundDiv((stat.f_blocks - stat.f_bavail) * 10000,
                                          stat.f_blocks),
                     mounted |-> TRUE]]

SsdInfoTry(stat) ==
    IF ~stat.ok THEN [raised |-> TRUE]
    ELSE LET total == stat.f_blocks
             free == stat.f_bavail
             used == total - free
         IN  [raised |-> FALSE,
              value |-> [total |-> GBx100(total, stat.f_frsize),
                         used |-> GBx100(used, stat.f_frsize),
                         free |-> GBx100(free, stat.f_frsize),
                         percent |-> IF total > 0 THEN RoundDiv(used * 10000, total)
                                     ELSE 0,
                         mounted |-> TRUE]]

\* Lines 130-138: the except branch's dictionary.
SsdUnmounted == [total |-> 0, used |-> 0, free |-> 0, percent |-> 0, mounted |-> FALSE]

get_ssd_info(stat) ==
    LET r == SsdInfoTry(stat)
    IN  IF r.raised THEN SsdUnmounted ELSE r.value

\* get_recording_list: the entries with a video extension, sorted by their
\* date string, latest first (sorted(..., reverse=True) is stable).
EndsWith(name, suffix) ==
    /\ Len(name) >= Len(suffix)
    /\ SubSeq(name, Len(name) - Len(suffix) + 1, Len(name)) = suffix

IsVideoName(name) ==
    EndsWith(name, <<".", "a", "v", "i">>) \/ EndsWith(name, <<".", "m", "p", "4">>)

\* strftime('%Y-%m-%d %H:%M:%S') of fromtimestamp(mtime): the fraction of the
\* second is dropped.  Two such strings compare as their whole seconds do.
DateKey(mtime) == mtime \div MtimeTicksPerSec

FileEntry(f) ==
    [name |-> f.name, size |-> RoundDiv(f.size * 100, MiB), date |-> DateKey(f.mtime)]

RECURSIVE InsertByDate(_, _)
InsertByDate(sorted, e) ==
    IF sorted = << >> THEN <<e>>
    ELSE IF Head(sorted).date >= e.date THEN <<Head(sorted)>> \o InsertByDate(Tail(sorted), e)
    ELSE <<e>> \o sorted

RECURSIVE SortedByDateDesc(_)
SortedByDateDesc(files) ==
    IF files = << >> THEN << >>
    ELSE InsertByDate(SortedByDateDesc(SubSeq(files, 1, Len(files) - 1)),
                      files[Len(files)])

\* Lines 142-157.  A directory entry is (name, size, mtime, ok): ok is whether
\* os.path.getsize / getmtime answer for it (they raise for an entry that is
\* gone or a dangling link).  An exception anywhere in the try leaves the
\* except branch's empty list; os.listdir raising gives the same list as an
\* empty directory does.
get_recording_list(listing) ==
    IF \E i \in 1..Len(listing) : IsVideoName(listing[i].name) /\ ~listing[i].ok
    THEN << >>
    ELSE SortedByDateDesc(
             [i \in 1..Len(SelectSeq(listing, LAMBDA f : IsVideoName(f.name))) |->
                 FileEntry(SelectSeq(listing, LAMBDA f : IsVideoName(f.name))[i])])
\* ------------------------------------------------------------ request layer
Routes == {"index", "video_feed", "stats", "recordings", "start", "stop", "system_info"}

\* The credentials requests are sent with: both configured users, a configured
\* user with another user's password, and an unknown user with a configured
\* password.
Credentials ==
    {<<"admin", "raspberry">>, <<"viewer", "viewer123">>, <<"admin", "viewer123">>,
     <<"guest", "raspberry">>}

NoReq == [route |-> None, username |-> None, password |-> None]
NoResp == [code |-> 0]
\* A local not yet assigned holds its type's placeholder.
NoSsdInfo == [unbound |-> TRUE]
LocInit == [ssd_info |-> NoSsdInfo, v |-> 0, c |-> 0, p |-> 0, rec |-> FALSE,
            saved_filename |-> NoName, sid |-> 0]

\* The view function a route is bound to (the @app.route decorators).
Entry(route) ==
    CASE route = "index" -> "index"
      [] route = "video_feed" -> "feed_check"
      [] route = "stats" -> "stats_ssd"
      [] route = "recordings" -> "recordings"
      [] route = "start" -> "start_check"
      [] route = "stop" -> "stop_check"
      [] route = "system_info" -> "system_info"

StartPcs == {"start_check", "start_set", "start_name", "start_path", "start_return"}
StopPcs == {"stop_check", "stop_flag", "stop_save", "stop_name", "stop_return"}
RecordPcs == StartPcs \cup StopPcs

Goto(t, label) == pc' = [pc EXCEPT ![t] = label]
SetLoc(t, field, value) == loc' = [loc EXCEPT ![t][field] = value]

\* The view function returns (or raises): its locals are gone and the
\* response is on its way out.
Finish(t, response) ==
    /\ pc' = [pc EXCEPT ![t] = "respond"]
    /\ resp' = [resp EXCEPT ![t] = response]
    /\ loc' = [loc EXCEPT ![t] = LocInit]
    /\ overlap' = [overlap EXCEPT ![t] = FALSE]

\* round((time.time() - system_start_time) / 60, 1), in tenths of a minute.
UptimeMinutes == RoundDiv((now - system_start_time) * 10, 60 * TicksPerSec)

\* Steps that touch only this thread's position, request, locals and response.
LocalStep == UNCHANGED <<now, recording, recording_filename, video_writer, camera,
                         camOpens, task, writer, nSessions, stopped,
                         lastAccepted, monvars, envvars>>

\* No request is in flight on another thread.
NoOtherRequest(t) == \A u \in Threads \ {t} : pc[u] = "idle"

\* A request arrives on an idle server thread.  A start request is taken only
\* while the run's session budget allows its session.
Receive(t, routes, creds) ==
    /\ pc[t] = "idle"
    /\ \E r \in routes, cred \in creds :
        /\ r = "start" =>
             nSessions + Cardinality({u \in Threads :
                 \/ pc[u] = "auth" /\ req[u].route = "start"
                 \/ pc[u] \in {"start_check", "start_set"}})
               < MaxSessions
        /\ req' = [req EXCEPT ![t] = [route |-> r, username |-> cred[1],
                                      password |-> cred[2]]]
    /\ Goto(t, "auth")
    /\ UNCHANGED <<loc, resp, overlap>>
    /\ LocalStep

\* @auth.login_required: verify_password decides whether the view function
\* runs; the request is dispatched to it or answered by auth_error.
Authenticate(t) ==
    /\ pc[t] = "auth"
    /\ req' = [req EXCEPT ![t] = NoReq]
    /\ IF verify_password(req[t].username, req[t].password) = None
       THEN Finish(t, auth_error)
       ELSE /\ Goto(t, Entry(req[t].route))
            /\ overlap' =
                 IF req[t].route \in {"start", "stop"}
                 THEN [u \in Threads |->
                         IF u = t THEN \E w \in Threads \ {t} : pc[w] \in RecordPcs
                         ELSE IF pc[u] \in RecordPcs THEN TRUE ELSE overlap[u]]
                 ELSE overlap
            /\ UNCHANGED <<loc, resp>>
    /\ LocalStep

\* The response has gone out; the thread is free for the next request.
Send(t) ==
    /\ pc[t] = "respond"
    /\ Goto(t, "idle")
    /\ resp' = [resp EXCEPT ![t] = NoResp]
    /\ UNCHANGED <<req, loc, overlap>>
    /\ LocalStep

index(t) ==
    /\ pc[t] = "index"
    /\ Finish(t, [code |-> 200, body |-> "HTML_TEMPLATE"])
    /\ UNCHANGED req
    /\ LocalStep

get_recordings(t) ==
    /\ pc[t] = "recordings"
    /\ LET recordings == get_recording_list(dirList)
       IN  Finish(t, [code |-> 200, recordings |-> recordings, count |-> Len(recordings)])
    /\ UNCHANGED req
    /\ LocalStep

system_info(t) ==
    /\ pc[t] = "system_info"
    /\ Finish(t, [code |-> 200, uptime_minutes |-> UptimeMinutes,
                  camera_available |-> camera # NoObject,
                  ina219_available |-> INA219_AVAILABLE])
    /\ UNCHANGED req
    /\ LocalStep

\* ------------------------------------------------------------- get_stats
\* jsonify's arguments are evaluated in order, each reading one global.
StatsSsd(t) ==
    /\ pc[t] = "stats_ssd"
    /\ SetLoc(t, "ssd_info", get_ssd_info(fsStat))
    /\ Goto(t, "stats_v")
    /\ UNCHANGED <<req, resp, overlap>>
    /\ LocalStep

StatsVoltage(t) ==
    /\ pc[t] = "stats_v"
    /\ SetLoc(t, "v", current_voltage)
    /\ Goto(t, "stats_c")
    /\ UNCHANGED <<req, resp, overlap>>
    /\ LocalStep

StatsCurrent(t) ==
    /\ pc[t] = "stats_c"
    /\ SetLoc(t, "c", current_current)
    /\ Goto(t, "stats_p")
    /\ UNCHANGED <<req, resp, overlap>>
    /\ LocalStep

StatsPower(t) ==
    /\ pc[t] = "stats_p"
    /\ SetLoc(t, "p", current_power)
    /\ Goto(t, "stats_rec")
    /\ UNCHANGED <<req, resp, overlap>>
    /\ LocalStep

StatsRecording(t) ==
    /\ pc[t] = "stats_rec"
    /\ SetLoc(t, "rec", recording)
    /\ Goto(t, "stats_fn")
    /\ UNCHANGED <<req, resp, overlap>>
    /\ LocalStep

\* round(v, 2) volts, round(c, 3) amps, round(p, 2) watts.
StatsBody(l, filename, uptime) ==
    [code |-> 200,
     voltage |-> RoundDiv(l.v, 10) * 10,
     current |-> l.c,
     power |-> RoundDiv(l.p, 10000) * 10000,
     recording |-> l.rec,
     filename |-> filename,
     storage |-> l.ssd_info,
     uptime |-> uptime]

StatsReturn(t) ==
    /\ pc[t] = "stats_fn"
    /\ Finish(t, StatsBody(loc[t], recording_filename, UptimeMinutes))
    /\ UNCHANGED req
    /\ LocalStep

\* ------------------------------------------------------------- video_feed
\* Line 703: if camera is None.
FeedCheck(t) ==
    /\ pc[t] = "feed_check"
    /\ Goto(t, IF camera = NoObject THEN "feed_open" ELSE "feed_respond")
    /\ UNCHANGED <<req, loc, resp, overlap>>
    /\ LocalStep

\* Lines 704-708: camera = CameraStream(CAMERA_INDEX); the constructor raises
\* when the device does not open.
FeedOpen(t) ==
    /\ pc[t] = "feed_open"
    /\ \/ /\ camOpens' = camOpens + 1
          /\ camera' = camOpens + 1
          /\ Goto(t, "feed_respond")
          /\ UNCHANGED <<loc, resp, overlap>>
       \/ /\ Finish(t, [code |-> 500, body |-> "Camera initialization failed"])
          /\ UNCHANGED <<camera, camOpens>>
    /\ UNCHANGED <<now, req, recording, recording_filename, video_writer, task, writer,
                   nSessions, stopped, lastAccepted, monvars, envvars>>

StreamHeader == [code |-> 200, mimetype |-> "multipart/x-mixed-replace; boundary=frame"]

\* Line 710: Response(camera.generate_frames(), ...): the response starts,
\* fed by the generator of the CameraStream the global names.
FeedRespond(t) ==
    /\ pc[t] = "feed_respond"
    /\ resp' = [resp EXCEPT ![t] = StreamHeader]
    /\ Goto(t, "gf_read")
    /\ UNCHANGED <<req, loc, overlap>>
    /\ LocalStep

\* generate_frames / get_frame, line 227: self.camera.read(); no frame ends
\* the generator and with it the response.
GfRead(t) ==
    /\ pc[t] = "gf_read"
    /\ \/ Goto(t, "gf_v") /\ UNCHANGED resp
       \/ Goto(t, "idle") /\ resp' = [resp EXCEPT ![t] = NoResp]
    /\ UNCHANGED <<req, loc, overlap>>
    /\ LocalStep

\* Line 237: the battery text reads the three globals in turn.
GfVoltage(t) ==
    /\ pc[t] = "gf_v"
    /\ SetLoc(t, "v", current_voltage)
    /\ Goto(t, "gf_c")
    /\ UNCHANGED <<req, resp, overlap>>
    /\ LocalStep

GfCurrent(t) ==
    /\ pc[t] = "gf_c"
    /\ SetLoc(t, "c", current_current)
    /\ Goto(t, "gf_p")
    /\ UNCHANGED <<req, resp, overlap>>
    /\ LocalStep

GfPower(t) ==
    /\ pc[t] = "gf_p"
    /\ SetLoc(t, "p", current_power)
    /\ Goto(t, "gf_rec")
    /\ UNCHANGED <<req, resp, overlap>>
    /\ LocalStep

\* Lines 242-262: the recording indicator, then the JPEG frame is yielded
\* (or dropped when the encoder fails).
GfYield(t) ==
    /\ pc[t] = "gf_rec"
    /\ \/ resp' = [resp EXCEPT ![t] =
                     StreamHeader @@
                     [battery |-> <<RoundDiv(loc[t].v, 10) * 10, loc[t].c,
                                    RoundDiv(loc[t].p, 10000) * 10000>>,
                      rec_indicator |-> recording]]
       \/ UNCHANGED resp
    /\ loc' = [loc EXCEPT ![t] = LocInit]
    /\ Goto(t, "gf_read")
    /\ UNCHANGED <<req, overlap>>
    /\ LocalStep

\* ---------------------------------------------------------- start_recording
\* Lines 744-745.
StartCheck(t) ==
    /\ pc[t] = "start_check"
    /\ IF recording
       THEN Finish(t, [code |-> 400, message |-> "Already recording", status |-> "error"])
       ELSE Goto(t, "start_set") /\ UNCHANGED <<loc, resp, overlap>>
    /\ UNCHANGED req
    /\ LocalStep

\* Line 747: recording = True.
StartSet(t) ==
    /\ pc[t] = "start_set"
    /\ recording' = TRUE
    /\ nSessions' = nSessions + 1
    /\ SetLoc(t, "sid", nSessions + 1)
    /\ lastAccepted' = "start"
    /\ Goto(t, "start_name")
    /\ UNCHANGED <<now, recording_filename, video_writer, camera, camOpens, req, resp,
                   task, writer, stopped, overlap, monvars, envvars>>

\* Line 748.
StartName(t) ==
    /\ pc[t] = "start_name"
    /\ recording_filename' = RecordingName(now)
    /\ Goto(t, "start_path")
    /\ UNCHANGED <<now, recording, video_writer, camera, camOpens, req, loc, resp,
                   task, writer, nSessions, stopped, overlap, lastAccepted,
                   monvars, envvars>>

\* Lines 749-752: filepath = os.path.join(SSD_MOUNT_PATH, recording_filename),
\* which raises TypeError on None (answered with a 500), then
\* threading.Thread(target=record_video, args=(filepath,)).start().
StartSpawn(t) ==
    /\ pc[t] = "start_path"
    /\ IF recording_filename = NoName
       THEN Finish(t, [code |-> 500, body |-> "Internal Server Error"])
            /\ UNCHANGED task
       ELSE /\ task' = [task EXCEPT ![loc[t].sid] =
                          [pc |-> "open_writer",
                           filepath |-> PathJoin(SSD_MOUNT_PATH, recording_filename),
                           temp_camera |-> None]]
            /\ Goto(t, "start_return")
            /\ UNCHANGED <<loc, resp, overlap>>
    /\ UNCHANGED <<now, recording, recording_filename, video_writer, camera, camOpens,
                   req, writer, nSessions, stopped, lastAccepted,
                   monvars, envvars>>

\* Lines 754-758: the body names the global's value at this moment.
StartResponse(filename) ==
    [code |-> 200, message |-> <<"Recording started: ", filename>>,
     status |-> "success", filename |-> filename]

StartReturn(t) ==
    /\ pc[t] = "start_return"
    /\ Finish(t, StartResponse(recording_filename))
    /\ UNCHANGED req
    /\ LocalStep

\* ----------------------------------------------------------- stop_recording
\* Lines 766-767.
StopCheck(t) ==
    /\ pc[t] = "stop_check"
    /\ IF ~recording
       THEN Finish(t, [code |-> 400, message |-> "Not currently recording",
                       status |-> "error"])
       ELSE Goto(t, "stop_flag") /\ UNCHANGED <<loc, resp, overlap>>
    /\ UNCHANGED req
    /\ LocalStep

\* Line 769: recording = False.
StopFlag(t) ==
    /\ pc[t] = "stop_flag"
    /\ recording' = FALSE
    /\ stopped' = [k \in Sessions |-> stopped[k] \/ k = nSessions]
    /\ Goto(t, "stop_save")
    /\ UNCHANGED <<now, recording_filename, video_writer, camera, camOpens, req, loc,
                   resp, task, writer, nSessions, overlap, lastAccepted,
                   monvars, envvars>>

\* Line 770.
StopSave(t) ==
    /\ pc[t] = "stop_save"
    /\ SetLoc(t, "saved_filename", recording_filename)
    /\ Goto(t, "stop_name")
    /\ UNCHANGED <<req, resp, overlap>>
    /\ LocalStep

\* The stop that forgets to clear the remembered filename.
StopKeepName(t) ==
    /\ pc[t] = "stop_name"
    /\ Goto(t, "stop_return")
    /\ UNCHANGED <<now, recording, recording_filename, video_writer, camera, camOpens,
                   req, loc, resp, task, writer, nSessions, stopped, overlap,
                   lastAccepted, monvars, envvars>>

\* Line 771: recording_filename = None.
StopClearName(t) ==
    /\ pc[t] = "stop_name"
    /\ recording_filename' = NoName
    /\ Goto(t, "stop_return")
    /\ UNCHANGED <<now, recording, video_writer, camera, camOpens, req, loc, resp,
                   task, writer, nSessions, stopped, overlap, lastAccepted,
                   monvars, envvars>>

\* Lines 773-776.
StopReturn(t) ==
    /\ pc[t] = "stop_return"
    /\ Finish(t, [code |-> 200,
                  message |-> <<"Recording stopped: ", loc[t].saved_filename>>,
                  status |-> "success"])
    /\ lastAccepted' = "stop"
    /\ UNCHANGED <<now, recording, recording_filename, video_writer, camera, camOpens,
                   req, task, writer, nSessions, stopped, monvars, envvars>>

\* -------------------------------------------------------------- record_video
\* The thread's steps are cut at its accesses to the globals recording and
\* video_writer; what it does to its own capture device rides with them.
\* frame_count and start_time feed only the closing log line and are left out.
NoTask == [pc |-> "none", filepath |-> NoName, temp_camera |-> None]
NoWriter == [state |-> "none", path |-> NoName]

TaskOnly == UNCHANGED <<now, recording, recording_filename, camera, camOpens, pc, req,
                        loc, resp, nSessions, stopped, overlap, lastAccepted,
                        monvars, envvars>>

\* Lines 274-282: video_writer = cv2.VideoWriter(filepath, ...), the global;
\* then temp_camera = cv2.VideoCapture(CAMERA_INDEX).  A capture whose device
\* did not open fails every read, which TaskLoop's failed read covers.
TaskOpen(k) ==
    /\ task[k].pc = "open_writer"
    /\ writer' = [writer EXCEPT ![k] = [state |-> "open", path |-> task[k].filepath]]
    /\ video_writer' = k
    /\ task' = [task EXCEPT ![k].temp_camera = "capture", ![k].pc = "loop"]
    /\ TaskOnly

\* Lines 284-286: while recording: ret, frame = temp_camera.read();
\* after the loop, line 296: temp_camera.release().
TaskLoop(k) ==
    /\ task[k].pc = "loop"
    /\ IF recording
       THEN \E ret \in BOOLEAN :
               task' = [task EXCEPT ![k].pc = IF ret THEN "write" ELSE "loop"]
       ELSE task' = [task EXCEPT ![k].temp_camera = "released",
                                 ![k].pc = "release_writer"]
    /\ UNCHANGED <<video_writer, writer>>
    /\ TaskOnly

\* Lines 288-293: video_writer.write(frame) appends the frame to the writer
\* the global names (a released writer drops it).  The frames in a file are
\* not part of the state: the step's target is video_writer.
TaskWrite(k) ==
    /\ task[k].pc = "write"
    /\ task' = [task EXCEPT ![k].pc = "loop"]
    /\ UNCHANGED <<video_writer, writer>>
    /\ TaskOnly

\* Lines 297-300: video_writer.release() on the writer the global names.
TaskReleaseWriter(k) ==
    /\ task[k].pc = "release_writer"
    /\ writer' = [writer EXCEPT ![video_writer].state = "released"]
    /\ task' = [task EXCEPT ![k].pc = "done"]
    /\ UNCHANGED video_writer
    /\ TaskOnly

record_video(k) ==
    \/ TaskOpen(k)
    \/ TaskLoop(k)
    \/ TaskWrite(k)
    \/ TaskReleaseWriter(k)

\* ------------------------------------------------------------------- clock
\* A second passes.
TickSecond ==
    /\ now + TicksPerSec <= StartTime + WebHorizon * TicksPerSec
    /\ now' = now + TicksPerSec
    /\ UNCHANGED <<webvars, monvars, envvars>>

\* ------------------------------------------------- the request-handling spec
InitShared ==
    /\ now = StartTime
    /\ system_start_time = StartTime
    /\ recording = FALSE
    /\ recording_filename = NoName
    /\ video_writer = NoObject
    /\ camera = NoObject
    /\ camOpens = 0
    /\ current_voltage = 0
    /\ current_current = 0
    /\ current_power = 0
    /\ pc = [t \in Threads |-> "idle"]
    /\ req = [t \in Threads |-> NoReq]
    /\ loc = [t \in Threads |-> LocInit]
    /\ resp = [t \in Threads |-> NoResp]
    /\ task = [k \in Sessions |-> NoTask]
    /\ writer = [k \in Sessions |-> NoWriter]
    /\ nSessions = 0
    /\ stopped = [k \in Sessions |-> FALSE]
    /\ overlap = [t \in Threads |-> FALSE]
    /\ lastAccepted = "none"
    /\ spc = "start"
    /\ wake = 0
    /\ sampleChanged = FALSE

\* The sampler writes only the three telemetry globals, which no handler's
\* control flow reads: this specification holds them at their initial values.
Init ==
    /\ InitShared
    /\ INA219_AVAILABLE = FALSE
    /\ fsStat = StatFail
    /\ dirList = << >>

RecordingApi == {"start", "stop", "stats"}
OperatorCredentials == {<<"admin", "raspberry">>, <<"guest", "raspberry">>}

get_stats(t) ==
    \/ StatsSsd(t) \/ StatsVoltage(t) \/ StatsCurrent(t) \/ StatsPower(t)
    \/ StatsRecording(t) \/ StatsReturn(t)

start_recording(t) ==
    \/ StartCheck(t) \/ StartSet(t) \/ StartName(t) \/ StartSpawn(t) \/ StartReturn(t)

stop_recording(t) ==
    \/ StopCheck(t) \/ StopFlag(t) \/ StopSave(t) \/ StopClearName(t) \/ StopReturn(t)

video_feed(t) ==
    \/ FeedCheck(t) \/ FeedOpen(t) \/ FeedRespond(t)
    \/ GfRead(t) \/ GfVoltage(t) \/ GfCurrent(t) \/ GfPower(t) \/ GfYield(t)

\* Requests to the recording API (start, stop, stats) on every server thread,
\* the recording tasks, and the clock.
Next ==
    \/ \E t \in Threads : Receive(t, RecordingApi, OperatorCredentials)
    \/ \E t \in Threads : Authenticate(t)
    \/ \E t \in Threads : Send(t)
    \/ \E t \in Threads : get_stats(t)
    \/ \E t \in Threads : start_recording(t)
    \/ \E t \in Threads : stop_recording(t)
    \/ \E k \in Sessions : record_video(k)
    \/ TickSecond

Spec == Init /\ [][Next]_vars
\* --------------------------------------------------------- the whole surface
\* Requests to every route with every kind of credentials, taken one at a
\* time (a request is received only while no other is in flight), the
\* recording tasks, and the clock.
NextRoutes ==
    \/ \E t \in Threads : NoOtherRequest(t) /\ Receive(t, Routes, Credentials)
    \/ \E t \in Threads : Authenticate(t)
    \/ \E t \in Threads : Send(t)
    \/ \E t \in Threads : index(t)
    \/ \E t \in Threads : video_feed(t)
    \/ \E t \in Threads : get_stats(t)
    \/ \E t \in Threads : get_recordings(t)
    \/ \E t \in Threads : start_recording(t)
    \/ \E t \in Threads : stop_recording(t)
    \/ \E t \in Threads : system_info(t)
    \/ \E k \in Sessions : record_video(k)
    \/ TickSecond

SpecRoutes == Init /\ [][NextRoutes]_vars

\* -------------------------------------------------------- read_battery_data
\* Lines 171 and 198: 12.0 + (time.time() % 10) / 10, in mV.
SimVoltageWide(t) == 12000 + ((t % (10 * TicksPerSec)) * 1000) \div (5 * TicksPerSec)

SimVoltage(t) == 12000 + ((t % (10 * TicksPerSec)) * 1000) \div (10 * TicksPerSec)

\* Lines 172 and 199: 0.5 + (time.time() % 5) / 10, in mA.
SimCurrent(t) == 500 + ((t % (5 * TicksPerSec)) * 1000) \div (10 * TicksPerSec)

\* What the sensor can answer: ina.voltage() in V (here mV), ina.current() in
\* mA, ina.power() in mW.
HwVoltages == {11900, 12340}
HwCurrents == {1234}
HwPowers == {15228}

SimPcs == {"sim_v", "sim_c", "sim_p", "sim_sleep"}
HwPcs == {"hw_v", "hw_c", "hw_p", "hw_range", "hw_error", "hw_sleep"}

SamplerOnly == UNCHANGED <<webvars, envvars>>

\* Line 167: if not INA219_AVAILABLE.
SamplerStart ==
    /\ spc = "start"
    /\ spc' = IF INA219_AVAILABLE THEN "hw_init" ELSE "sim_v"
    /\ UNCHANGED <<now, current_voltage, current_current, current_power, wake,
                   sampleChanged>>
    /\ SamplerOnly

\* Lines 177-180 and 193-196: INA219(...) and configure() succeed, or raise
\* and the except branch enters the simulated loop.
SamplerInit ==
    /\ spc = "hw_init"
    /\ spc' \in {"hw_v", "sim_v"}
    /\ UNCHANGED <<now, current_voltage, current_current, current_power, wake,
                   sampleChanged>>
    /\ SamplerOnly

\* The simulated loop, lines 170-174 (and the same statements at 197-201).
SimWriteVoltage ==
    /\ spc = "sim_v"
    /\ current_voltage' = SimVoltage(now)
    /\ spc' = "sim_c"
    /\ UNCHANGED <<now, current_current, current_power, wake, sampleChanged>>
    /\ SamplerOnly

SimWriteCurrent ==
    /\ spc = "sim_c"
    /\ current_current' = SimCurrent(now)
    /\ spc' = "sim_p"
    /\ UNCHANGED <<now, current_voltage, current_power, wake, sampleChanged>>
    /\ SamplerOnly

SimWritePower ==
    /\ spc = "sim_p"
    /\ current_power' = current_voltage * current_current
    /\ spc' = "sim_sleep"
    /\ wake' = now + TicksPerSec
    /\ UNCHANGED <<now, current_voltage, current_current, sampleChanged>>
    /\ SamplerOnly

\* time.sleep(1) returns once a second has passed.
SimWake ==
    /\ spc = "sim_sleep"
    /\ now >= wake
    /\ spc' = "sim_v"
    /\ UNCHANGED <<now, current_voltage, current_current, current_power, wake,
                   sampleChanged>>
    /\ SamplerOnly

\* The hardware loop, lines 182-192.  Each read answers a value or raises
\* DeviceRangeError or another exception.
HwReadVoltage ==
    /\ spc = "hw_v"
    /\ \/ \E v \in HwVoltages : /\ current_voltage' = v
                                /\ sampleChanged' = (v # current_voltage)
                                /\ spc' = "hw_c"
       \/ /\ spc' \in {"hw_range", "hw_error"}
          /\ sampleChanged' = FALSE
          /\ UNCHANGED current_voltage
    /\ UNCHANGED <<now, current_current, current_power, wake>>
    /\ SamplerOnly

\* ina.current() / 1000.0: mA to A.
HwReadCurrent ==
    /\ spc = "hw_c"
    /\ \/ \E c \in HwCurrents : /\ current_current' = c
                                /\ sampleChanged' = (sampleChanged \/ c # current_current)
                                /\ spc' = "hw_p"
       \/ /\ spc' \in {"hw_range", "hw_error"}
          /\ UNCHANGED <<current_current, sampleChanged>>
    /\ UNCHANGED <<now, current_voltage, current_power, wake>>
    /\ SamplerOnly

\* ina.power() / 1000.0: mW to W (here uW).
HwReadPower ==
    /\ spc = "hw_p"
    /\ \/ \E p \in HwPowers : current_power' = p * 1000 /\ spc' = "hw_sleep"
                              /\ wake' = now + TicksPerSec
       \/ spc' \in {"hw_range", "hw_error"} /\ UNCHANGED <<current_power, wake>>
    /\ UNCHANGED <<now, current_voltage, current_current, sampleChanged>>
    /\ SamplerOnly

\* An except branch that gives the hardware up for the simulated loop.
HwExceptFallback ==
    /\ spc \in {"hw_range", "hw_error"}
    /\ spc' = "sim_v"
    /\ UNCHANGED <<now, current_voltage, current_current, current_power, wake,
                   sampleChanged>>
    /\ SamplerOnly

\* Lines 187-192: the except branches log, then the loop sleeps.
HwExcept ==
    /\ spc \in {"hw_range", "hw_error"}
    /\ spc' = "hw_sleep"
    /\ wake' = now + TicksPerSec
    /\ UNCHANGED <<now, current_voltage, current_current, current_power, sampleChanged>>
    /\ SamplerOnly

HwWake ==
    /\ spc = "hw_sleep"
    /\ now >= wake
    /\ spc' = "hw_v"
    /\ UNCHANGED <<now, current_voltage, current_current, current_power, wake,
                   sampleChanged>>
    /\ SamplerOnly

read_battery_data ==
    \/ SamplerStart \/ SamplerInit
    \/ SimWriteVoltage \/ SimWriteCurrent \/ SimWritePower \/ SimWake
    \/ HwReadVoltage \/ HwReadCurrent \/ HwReadPower \/ HwExcept \/ HwWake

\* A tick passes.
Tick ==
    /\ now < StartTime + MonHorizon * TicksPerSec
    /\ now' = now + 1
    /\ UNCHANGED <<webvars, monvars, envvars>>

\* ------------------------------------------------------ the monitoring spec
\* The sampler thread, the clock, and stats requests taken one at a time (the
\* stats handler writes nothing another request reads).
InitMonitor ==
    /\ InitShared
    /\ INA219_AVAILABLE \in BOOLEAN
    /\ fsStat = StatFail
    /\ dirList = << >>

StatsRoute == {"stats"}

NextMonitor ==
    \/ read_battery_data
    \/ Tick
    \/ \E t \in Threads : NoOtherRequest(t) /\ Receive(t, StatsRoute, OperatorCredentials)
    \/ \E t \in Threads : Authenticate(t)
    \/ \E t \in Threads : Send(t)
    \/ \E t \in Threads : get_stats(t)

SpecMonitor == InitMonitor /\ [][NextMonitor]_vars

\* The sampler thread keeps being scheduled and the clock keeps running (up
\* to the horizon).
FairMonitor == SpecMonitor /\ WF_vars(read_battery_data) /\ WF_vars(Tick)

\* --------------------------------------------------------- the storage spec
\* The volume is mounted, unmounted, filled or emptied between any two steps
\* of the server.
StorageChanges ==
    /\ fsStat' \in StatResults \ {fsStat}
    /\ UNCHANGED <<now, webvars, monvars, system_start_time, INA219_AVAILABLE, dirList>>

InitStorage ==
    /\ InitShared
    /\ INA219_AVAILABLE = FALSE
    /\ fsStat \in StatResults
    /\ dirList = << >>

\* Stats requests on every server thread while the volume changes.
NextStorage ==
    \/ StorageChanges
    \/ \E t \in Threads : Receive(t, StatsRoute, OperatorCredentials)
    \/ \E t \in Threads : Authenticate(t)
    \/ \E t \in Threads : Send(t)
    \/ \E t \in Threads : get_stats(t)

SpecStorage == InitStorage /\ [][NextStorage]_vars

\* --------------------------------------------------------- the listing spec
\* What the storage root may hold: names with and without a video extension,
\* modification times of which two fall in one second, and entries that
\* cannot be stat'ed.
FileNames ==
    {<<"a", ".", "a", "v", "i">>, <<"b", ".", "m", "p", "4">>,
     <<"n", ".", "t", "x", "t">>, <<"a", "v", "i">>}
FileSizes == {0, 1572864}
FileMtimes == {StartTime * MtimeTicksPerSec + d : d \in 0..MtimeTicksPerSec}
DirEntries == [name : FileNames, size : FileSizes, mtime : FileMtimes, ok : BOOLEAN]

\* os.listdir: the entries in any order, no name twice.
Listings ==
    {l \in UNION {[1..n -> DirEntries] : n \in 0..MaxFiles} :
        \A i, j \in 1..Len(l) : i # j => l[i].name # l[j].name}

InitListing ==
    /\ InitShared
    /\ INA219_AVAILABLE = FALSE
    /\ fsStat = StatFail
    /\ dirList \in Listings

RecordingsRoute == {"recordings"}

\* Listing requests on every server thread.
NextListing ==
    \/ \E t \in Threads : Receive(t, RecordingsRoute, OperatorCredentials)
    \/ \E t \in Threads : Authenticate(t)
    \/ \E t \in Threads : Send(t)
    \/ \E t \in Threads : get_recordings(t)

SpecListing == InitListing /\ [][NextListing]_vars

\* ------------------------------------------------------- the live-view spec
FeedRoute == {"video_feed"}

\* Live-view requests on every server thread.
NextFeed ==
    \/ \E t \in Threads : Receive(t, FeedRoute, OperatorCredentials)
    \/ \E t \in Threads : Authenticate(t)
    \/ \E t \in Threads : Send(t)
    \/ \E t \in Threads : video_feed(t)

SpecFeed == Init /\ [][NextFeed]_vars

\* The scheduler keeps running every recording thread that can take a step.
FairSpec == Spec /\ \A k \in Sessions : WF_vars(record_video(k))

\* ------------------------------------------------ claims: recording control
\* A task in its capture loop (lines 284-293).
InCaptureLoop(k) == task[k].pc \in {"loop", "write"}

\* C1: at most one recording task is in its capture loop at a time.
C1_AtMostOneRecordingTask ==
    Cardinality({k \in Sessions : InCaptureLoop(k)}) <= 1

Digits == {DigitChars[i] : i \in 1..10}

\* YYYYMMDD_HHMMSS followed by the extension.
IsTimestampName(f) ==
    /\ Len(f) = 15 + Len(VideoExt)
    /\ \A i \in (1..8) \cup (10..15) : f[i] \in Digits
    /\ f[9] = "_"
    /\ EndsWith(f, VideoExt)

C4_StopLeadsToExit ==
    \A k \in Sessions :
        (stopped[k] /\ task[k].pc # "none")
            ~> (/\ task[k].pc = "done"
                /\ task[k].temp_camera = "released"
                /\ writer[k].state = "released")

\* C9: a stats response produced while the last accepted record command is a
\* stop reports recording = false and no filename.
C9_StatsAfterStop ==
    [][\A t \in Threads :
        (pc[t] = "stats_fn" /\ pc'[t] = "respond" /\ lastAccepted = "stop") =>
            (~resp'[t].recording /\ resp'[t].filename = NoName)
    ]_vars
\* ------------------------------------------------------ claims: credentials
\* The configured user map (lines 35-38), by user name and password.
ConfiguredCredentials == {<<"admin", "raspberry">>, <<"viewer", "viewer123">>}

\* C5: a request whose credentials are not in the configured user map is
\* answered 401 with the structured error body, reaches no handler and changes
\* neither the flag, the filename, the live-view handle nor the tasks; a request
\* with configured credentials is dispatched to its route's handler; and a
\* handler is entered in no other way.
C5_AuthGate ==
    [][\A t \in Threads :
        /\ (pc[t] = "auth" /\ pc'[t] # "auth") =>
             IF <<req[t].username, req[t].password>> \in ConfiguredCredentials
             THEN pc'[t] = Entry(req[t].route)
             ELSE /\ pc'[t] = "respond"
                  /\ resp'[t] = [code |-> 401, error |-> "Authentication required",
                                 message |-> "Please provide valid credentials"]
                  /\ UNCHANGED <<recording, recording_filename, camera, task>>
        /\ pc[t] \in {"idle", "respond"} => pc'[t] \in {"idle", "auth", "respond"}
    ]_vars

\* A request with bad credentials has been answered 401 while a session that
\* a request with good credentials started is recording.
C5_Witness ==
    \E t \in Threads :
        /\ pc[t] = "respond" /\ resp[t].code = 401
        /\ recording /\ \E k \in Sessions : InCaptureLoop(k)
\* -------------------------------------------------------- claims: telemetry
\* C6: in the simulated loop every voltage the sampler has written is in
\* [12.0, 13.0) V and every current in [0.5, 1.0) A; before the loop's first
\* write of a field the field holds its initial 0.
C6_SimulatedRanges ==
    spc \in SimPcs =>
        /\ \/ 12000 <= current_voltage /\ current_voltage < 13000
           \/ spc = "sim_v" /\ current_voltage = 0
        /\ \/ 500 <= current_current /\ current_current < 1000
           \/ spc \in {"sim_v", "sim_c"} /\ current_current = 0

\* The simulated loop has published the sample taken where both moduli have
\* wrapped: the lowest voltage and the lowest current.
C6_Witness ==
    /\ spc = "sim_sleep"
    /\ now > StartTime
    /\ current_voltage = 12000
    /\ current_current = 500
    /\ current_power = 12000 * 500

\* C7: in the simulated path a stats request that has read the three fields,
\* each of them written by the sampler, holds a power that is the product of
\* the voltage and current it read.
C7_ReaderSeesProduct ==
    \A t \in Threads :
        (/\ spc \in SimPcs
         /\ pc[t] \in {"stats_rec", "stats_fn"}
         /\ loc[t].v # 0 /\ loc[t].c # 0 /\ loc[t].p # 0) =>
            loc[t].p = loc[t].v * loc[t].c

\* C8: when a hardware sample taken after a complete one has raised the
\* out-of-range error, the published reading is the one that stood when the
\* sample began.
C8_RangeErrorKeepsReading ==
    (spc = "hw_range" /\ current_power # 0) => ~sampleChanged
\* ---------------------------------------------------------- claims: storage
\* C10: the storage query answers the stats handler in every case: the
\* all-zero dictionary with mounted false when statvfs fails, a dictionary with
\* mounted true when it succeeds; and the stats handler returns the complete
\* 200 response carrying that dictionary.
C10_StorageQueryNeverRaises ==
    [][\A t \in Threads :
        /\ (pc[t] = "stats_ssd" /\ pc'[t] # "stats_ssd") =>
             /\ pc'[t] = "stats_v"
             /\ IF fsStat.ok
                THEN loc'[t].ssd_info.mounted = TRUE
                ELSE loc'[t].ssd_info = [total |-> 0, used |-> 0, free |-> 0,
                                         percent |-> 0, mounted |-> FALSE]
        /\ (pc[t] = "stats_fn" /\ pc'[t] # "stats_fn") =>
             /\ pc'[t] = "respond"
             /\ resp'[t].code = 200
             /\ DOMAIN resp'[t] = {"code", "voltage", "current", "power", "recording",
                                   "filename", "storage", "uptime"}
             /\ resp'[t].storage = loc[t].ssd_info
             /\ DOMAIN resp'[t].storage = {"total", "used", "free", "percent", "mounted"}
    ]_vars

\* A stats response reports the volume unmounted with all-zero figures while
\* another stats request, served after the volume was mounted, holds a
\* dictionary with mounted true.
C10_Witness ==
    \E t, u \in Threads :
        /\ pc[t] = "respond" /\ resp[t].code = 200
        /\ ~resp[t].storage.mounted /\ resp[t].storage.total = 0
        /\ pc[u] = "stats_v" /\ loc[u].ssd_info.mounted
\* ---------------------------------------------------------- claims: listing
\* C11: the listing a recordings request returns names exactly the entries of
\* the storage root with a video extension, each once, and for any two listed
\* files the one modified later comes first.
C11_ListingContract ==
    [][\A t \in Threads :
        (pc[t] = "recordings" /\ pc'[t] # "recordings") =>
            LET out == resp'[t].recordings
                mtimeOf(n) == (CHOOSE i \in 1..Len(dirList) : dirList[i].name = n)
                vids == {i \in 1..Len(dirList) :
                            \/ EndsWith(dirList[i].name, <<".", "a", "v", "i">>)
                            \/ EndsWith(dirList[i].name, <<".", "m", "p", "4">>)}
            IN  /\ {out[i].name : i \in 1..Len(out)} = {dirList[i].name : i \in vids}
                /\ Len(out) = Cardinality(vids)
                /\ \A i, j \in 1..Len(out) :
                       dirList[mtimeOf(out[i].name)].mtime > dirList[mtimeOf(out[j].name)].mtime
                           => i < j
    ]_vars
\* ---------------------------------------------------------- claims: sampler
\* C12: once in the simulated loop the sampler stays in it and never reads the
\* sensor; once in the hardware loop it stays in it whatever a read raises;
\* a sample that raised is followed by the loop's sleep, and a sleep that ends
\* within the clock's horizon is followed by a new sample attempt.
C12_SamplerNeverStops ==
    /\ [][/\ spc \in SimPcs => spc' \in SimPcs
          /\ spc \in HwPcs => spc' \in HwPcs]_vars
    /\ (spc \in {"hw_range", "hw_error"}) ~> (spc = "hw_sleep")
    /\ (spc \in {"sim_sleep", "hw_sleep"} /\ wake <= StartTime + MonHorizon * TicksPerSec)
          ~> (spc \in {"sim_v", "hw_v"})

\* The hardware loop attempts a sample after an earlier one ended in its
\* sleep without any read having answered.
C12_Witness ==
    /\ spc = "hw_v"
    /\ wake > 0
    /\ current_voltage = 0
\* -------------------------------------------------------- claims: live view
\* C13: no two requests are at the same time between the check of the
\* live-view handle and its creation, and the live-view device is opened at
\* most once.
C13_LiveViewOpenedOnce ==
    /\ Cardinality({t \in Threads : pc[t] = "feed_open"}) <= 1
    /\ camOpens <= 1
\* ------------------------------------------------ claims: recording resources
\* C14: a frame a task appends goes to the writer that task opened, and on
\* exit a task releases the writer it opened and no other task's writer.
C14_OwnResources ==
    [][\A k \in Sessions :
        /\ (task[k].pc = "write" /\ task'[k].pc # "write") => video_writer = k
        /\ (task[k].pc = "release_writer" /\ task'[k].pc # "release_writer") =>
             /\ writer'[k].state = "released"
             /\ \A j \in Sessions \ {k} : writer'[j] = writer[j]
    ]_vars

\* C15: no two launched recording tasks were given the same file path.
C15_DistinctFilenames ==
    \A j, k \in Sessions :
        (j # k /\ task[j].pc # "none" /\ task[k].pc # "none") =>
            task[j].filepath # task[k].filepath

\* C16: whenever no start or stop handler is running, the recording flag is
\* true exactly when the remembered filename is set.
C16_FlagMatchesFilename ==
    (\A t \in Threads : pc[t] \notin RecordPcs) =>
        (recording <=> recording_filename # NoName)
====
